---------------------------- MODULE Spec2Model ----------------------------
(***************************************************************************)
(* Warehouse Free Space API: the location state registry of main.py.       *)
(*                                                                         *)
(* The program keeps two module-level dictionaries, locations and          *)
(* reservations, filled once by load_locations() and then read and written *)
(* by the request handlers health, get_locations, reserve, occupy, free    *)
(* and move.  The handlers are plain `def` endpoints, so the framework     *)
(* runs each request on a worker thread; the code takes no lock.  A        *)
(* handler is therefore modelled as a sequence of steps, one per access to *)
(* the shared dictionaries, run by a thread.                               *)
(*                                                                         *)
(*   Spec      one request at a time (a single client thread)              *)
(*   SpecConc  two worker threads, each serving one request, interleaved   *)
(***************************************************************************)
EXTENDS Integers, Sequences, FiniteSets, TLC

VARIABLES
    locations,     \* the dict `locations`, in insertion order: Seq of records
    reservations,  \* the dict `reservations`: reservation id -> record
    pc,            \* per thread: position in the handler it runs
    req,           \* per thread: the request being served
    idx,           \* per thread: loop position (the for loops of the handlers)
    results,       \* per thread: get_locations' list `results` (ids of live records)
    resp,          \* per thread: the response (or raised HTTPException)
    pre,           \* per thread: the two dictionaries as they were when the request began,
                   \* and whether the request repeats the one answered just before it
    last           \* between requests: the request just answered, when it was a
                   \* successful free or move

vars == <<locations, reservations, pc, req, idx, results, resp, pre, last>>

---------------------------------------------------------------------------
(* Bounds of the model *)

\* longest location_ids list of a reserve request
MaxIds == 3

\* largest explicit limit of a query (the smallest is -1)
MaxLimit == 3

\* the default value of get_locations' parameter limit
DefaultLimit == 100

\* longest location_ids list of a reserve request served concurrently
ConcMaxIds == 2

Threads == {"t1", "t2"}

\* ids a request may name: the three of the catalogue and one that is missing
RequestIds == {"L1", "L2", "L3", "LX"}

ReservationIds == {"R1"}

StatusValues == {"FREE", "OCCUPIED", "RESERVED", "BLOCKED", "MAINT"}

---------------------------------------------------------------------------
(* Optional values: None is the empty sequence, a value x is <<x>> *)

None == <<>>

Some(x) == <<x>>

\* Python truthiness of an Optional[str]: None and "" are false
TruthyStr(o) == Len(o) = 1 /\ o[1] # ""

\* Python truthiness of an Optional[int]: None and 0 are false
TruthyInt(o) == Len(o) = 1 /\ o[1] # 0

---------------------------------------------------------------------------
(* The record source: rows of text.  A text is a sequence of characters.   *)

Digits == <<"0", "1", "2", "3", "4", "5", "6", "7", "8", "9">>

IsDigit(c) == \E d \in 1..10 : Digits[d] = c

DigitVal(c) == (CHOOSE d \in 1..10 : Digits[d] = c) - 1

\* int(x) of a decimal text; the empty text and a non-digit raise ValueError
IntParses(x) == Len(x) > 0 /\ \A k \in 1..Len(x) : IsDigit(x[k])

RECURSIVE IntOf(_)
IntOf(x) ==
    IF Len(x) = 0 THEN 0
    ELSE 10 * IntOf(SubSeq(x, 1, Len(x) - 1)) + DigitVal(x[Len(x)])

EmptyText == <<>>

NoneText == <<"N", "o", "n", "e">>

\* _to_int of load_locations: "" and "None" give None, anything else int(x)
ToInt(x) == IF x = EmptyText \/ x = NoneText THEN None ELSE Some(IntOf(x))

\* one row of locations.csv with the given status text
Row(id, area_id, area_type, coords, dims, status, group_id) ==
    [id |-> id, area_id |-> area_id, area_type |-> area_type,
     aisle |-> coords[1], bay |-> coords[2], level |-> coords[3], position |-> coords[4],
     length_mm |-> dims[1], width_mm |-> dims[2], height_mm |-> dims[3],
     max_weight_kg |-> dims[4], status |-> status, group_id |-> group_id]

NoCoords == <<EmptyText, EmptyText, EmptyText, EmptyText>>

\* rows as the dataset generator writes them, with the statuses st[1..3]: a
\* rack position, and the two slots of one oversize group of FLEX-02
SourceRows(st) ==
    << Row("L1", "RACK-01", "RACKED", << <<"1">>, <<"1">>, <<"1">>, <<"1">> >>,
           << <<"1","2","0","0">>, <<"8","0","0">>, <<"1","5","0","0">>, <<"8","0","0">> >>,
           st[1], ""),
       Row("L2", "FLEX-02", "FLEX", NoCoords,
           << <<"2","0","0","0">>, <<"1","0","0","0">>, <<"2","2","0","0">>, <<"2","5","0","0">> >>,
           st[2], "FLEX-02-OVR-01"),
       Row("L3", "FLEX-02", "FLEX", NoCoords,
           << <<"1","0","0","0">>, <<"1","0","0","0">>, <<"2","2","0","0">>, <<"2","5","0","0">> >>,
           st[3], "FLEX-02-OVR-01") >>

---------------------------------------------------------------------------
(* The dict `locations`: an insertion-ordered sequence of records with     *)
(* unique ids.                                                             *)

Has(locs, id) == \E k \in 1..Len(locs) : locs[k].id = id

Pos(locs, id) == CHOOSE k \in 1..Len(locs) : locs[k].id = id

Get(locs, id) == locs[Pos(locs, id)]

StatusOf(locs, id) == Get(locs, id).status

\* a write that puts a fresh record in place of the old one and loses its group
SetStatusFresh(locs, id, s) ==
    [locs EXCEPT ![Pos(locs, id)].status = s, ![Pos(locs, id)].group_id = ""]

\* locations[id]["status"] = s
SetStatus(locs, id, s) == [locs EXCEPT ![Pos(locs, id)].status = s]

\* locations[r["id"]] = r: a new key goes last, an existing key keeps its place
Put(locs, r) ==
    IF Has(locs, r.id) THEN [locs EXCEPT ![Pos(locs, r.id)] = r] ELSE Append(locs, r)

\* a loader that runs the status through _to_int's test for an absent value
ParseRowStatusAbsent(r) ==
    [r EXCEPT !.aisle = ToInt(r.aisle), !.bay = ToInt(r.bay),
              !.level = ToInt(r.level), !.position = ToInt(r.position),
              !.length_mm = IntOf(r.length_mm), !.width_mm = IntOf(r.width_mm),
              !.height_mm = IntOf(r.height_mm), !.max_weight_kg = IntOf(r.max_weight_kg),
              !.status = IF r.status \in {"BLOCKED", "MAINT"} THEN "" ELSE r.status]

\* the body of load_locations' loop: the conversions of one row
ParseRow(r) ==
    [r EXCEPT !.aisle = ToInt(r.aisle), !.bay = ToInt(r.bay),
              !.level = ToInt(r.level), !.position = ToInt(r.position),
              !.length_mm = IntOf(r.length_mm), !.width_mm = IntOf(r.width_mm),
              !.height_mm = IntOf(r.height_mm), !.max_weight_kg = IntOf(r.max_weight_kg)]

RECURSIVE LoadFrom(_, _)
LoadFrom(rows, locs) ==
    IF Len(rows) = 0 THEN locs
    ELSE LoadFrom(Tail(rows), Put(locs, ParseRow(Head(rows))))

\* load_locations(): the catalogue read from the rows
load_locations(rows) == LoadFrom(rows, <<>>)

\* the rows int() accepts; any other source ends the program at start-up
Loadable(rows) ==
    \A k \in 1..Len(rows) :
        /\ IntParses(rows[k].length_mm) /\ IntParses(rows[k].width_mm)
        /\ IntParses(rows[k].height_mm) /\ IntParses(rows[k].max_weight_kg)

EmptyDict == [k \in {} |-> None]


---------------------------------------------------------------------------
(* Requests *)

\* class Reservation(BaseModel): the request body of /reserve, with the
\* defaults of the optional fields
Reservation(id, location_ids) ==
    [id |-> id, location_ids |-> location_ids, ref |-> None, from_ts |-> None,
     until_ts |-> None, status |-> "ACTIVE"]

\* sequences over S of length at most n
SeqsUpTo(S, n) == UNION {[1..k -> S] : k \in 0..n}

ReserveRequests ==
    {[op |-> "reserve", res |-> Reservation(r, ids)] :
        r \in ReservationIds, ids \in SeqsUpTo(RequestIds, MaxIds)}

OccupyRequests ==
    {[op |-> "occupy", location_id |-> l, pallet_ref |-> None] : l \in RequestIds}

FreeRequests == {[op |-> "free", location_id |-> l] : l \in RequestIds}

MoveRequests ==
    {[op |-> "move", from_location_id |-> a, to_location_id |-> b, pallet_ref |-> None] :
        a \in RequestIds, b \in RequestIds}

\* the parameters of get_locations, all filters absent
NoFilters(limit) ==
    [op |-> "query", status |-> None, area_type |-> None, area_id |-> None,
     min_l |-> None, min_w |-> None, min_h |-> None, min_weight |-> None,
     group_id |-> None, limit |-> limit]

LimitValues == (-1..MaxLimit) \cup {DefaultLimit}

QueryRequests == {NoFilters(n) : n \in LimitValues}

HealthRequests == {[op |-> "health"]}

Requests ==
    ReserveRequests \cup OccupyRequests \cup FreeRequests \cup MoveRequests
        \cup QueryRequests \cup HealthRequests

NoRequest == [op |-> "none"]

NoResponse == [code |-> 0]

NoSnapshot == [locations |-> <<>>, reservations |-> EmptyDict, repeats |-> FALSE]

\* where each handler starts
Entry(op) ==
    CASE op = "reserve" -> "reserve_check"
      [] op = "occupy"  -> "occupy_check"
      [] op = "free"    -> "free"
      [] op = "move"    -> "move_check_from"
      [] op = "query"   -> "query_scan"
      [] op = "health"  -> "health"

---------------------------------------------------------------------------
(* The state after the module is imported: load_locations() has run on a   *)
(* record source whose status fields are among the five status values, no  *)
(* reservation exists and no request is being served.                      *)

Init ==
    /\ \E st \in [1..3 -> StatusValues] :
          /\ Loadable(SourceRows(st))
          /\ locations = load_locations(SourceRows(st))
    /\ reservations = EmptyDict
    /\ pc = [t \in Threads |-> "idle"]
    /\ req = [t \in Threads |-> NoRequest]
    /\ idx = [t \in Threads |-> 1]
    /\ results = [t \in Threads |-> <<>>]
    /\ resp = [t \in Threads |-> NoResponse]
    /\ pre = [t \in Threads |-> NoSnapshot]
    /\ last = NoRequest

---------------------------------------------------------------------------
(* Steps common to the handlers *)

\* a worker thread takes a request from R and enters its handler
Begin(t, R) ==
    /\ pc[t] = "idle"
    /\ \E r \in R :
          /\ req' = [req EXCEPT ![t] = r]
          /\ pc' = [pc EXCEPT ![t] = Entry(r.op)]
          /\ pre' = [pre EXCEPT ![t] = [locations |-> locations,
                                        reservations |-> reservations,
                                        repeats |-> (last = r)]]
    /\ idx' = [idx EXCEPT ![t] = 1]
    /\ results' = [results EXCEPT ![t] = <<>>]
    /\ resp' = [resp EXCEPT ![t] = NoResponse]
    /\ last' = NoRequest
    /\ UNCHANGED <<locations, reservations>>

\* raise HTTPException(code, detail): the handler ends, nothing else changes
Raise(t, code, detail) ==
    /\ resp' = [resp EXCEPT ![t] = [code |-> code, detail |-> detail]]
    /\ pc' = [pc EXCEPT ![t] = "done"]
    /\ UNCHANGED <<locations, reservations, req, idx, results, pre, last>>

\* the response has been sent; the thread is free for the next request
Return(t) ==
    /\ pc[t] = "done"
    /\ pc' = [pc EXCEPT ![t] = "idle"]
    /\ req' = [req EXCEPT ![t] = NoRequest]
    /\ idx' = [idx EXCEPT ![t] = 1]
    /\ results' = [results EXCEPT ![t] = <<>>]
    /\ resp' = [resp EXCEPT ![t] = NoResponse]
    /\ pre' = [pre EXCEPT ![t] = NoSnapshot]
    /\ last' = IF resp[t].code = 200 /\ req[t].op \in {"free", "move"} THEN req[t] ELSE NoRequest
    /\ UNCHANGED <<locations, reservations>>

---------------------------------------------------------------------------
(* health *)

health(t) ==
    /\ pc[t] = "health"
    /\ resp' = [resp EXCEPT ![t] = [code |-> 200, ok |-> TRUE, locations |-> Len(locations)]]
    /\ pc' = [pc EXCEPT ![t] = "done"]
    /\ UNCHANGED <<locations, reservations, req, idx, results, pre, last>>

---------------------------------------------------------------------------
(* occupy *)

\* a guard that forgets to exclude blocked locations
OccupyAllowedLax(s) == s \in {"FREE", "RESERVED", "BLOCKED"}

\* the statuses occupy accepts
OccupyAllowed(s) == s \in {"FREE", "RESERVED"}

occupy_check(t) ==
    /\ pc[t] = "occupy_check"
    /\ LET id == req[t].location_id IN
         IF ~Has(locations, id)
         THEN Raise(t, 404, <<"Location not found">>)
         ELSE IF ~OccupyAllowed(StatusOf(locations, id))
         THEN Raise(t, 409, <<"Location not FREE/RESERVED">>)
         ELSE /\ pc' = [pc EXCEPT ![t] = "occupy_set"]
              /\ UNCHANGED <<locations, reservations, req, idx, results, resp, pre, last>>

\* an occupy that marks every slot of the location's group
occupy_set_group(t) ==
    /\ pc[t] = "occupy_set"
    /\ LET id == req[t].location_id
           g == Get(locations, id).group_id IN
         /\ locations' = [k \in 1..Len(locations) |->
                            IF locations[k].id = id \/ (g # "" /\ locations[k].group_id = g)
                            THEN [locations[k] EXCEPT !.status = "OCCUPIED"]
                            ELSE locations[k]]
         /\ resp' = [resp EXCEPT ![t] =
                       [code |-> 200, ok |-> TRUE, location |-> Get(locations', id)]]
    /\ pc' = [pc EXCEPT ![t] = "done"]
    /\ UNCHANGED <<reservations, req, idx, results, pre, last>>

occupy_set(t) ==
    /\ pc[t] = "occupy_set"
    /\ LET id == req[t].location_id IN
         /\ locations' = SetStatus(locations, id, "OCCUPIED")
         /\ resp' = [resp EXCEPT ![t] =
                       [code |-> 200, ok |-> TRUE, location |-> Get(locations', id)]]
    /\ pc' = [pc EXCEPT ![t] = "done"]
    /\ UNCHANGED <<reservations, req, idx, results, pre, last>>

---------------------------------------------------------------------------
(* free: the release operation *)

\* a release that refuses what is not occupied or reserved
freeGuarded(t) ==
    /\ pc[t] = "free"
    /\ LET id == req[t].location_id IN
         IF ~Has(locations, id)
         THEN Raise(t, 404, <<"Location not found">>)
         ELSE IF StatusOf(locations, id) \in {"BLOCKED", "MAINT"}
         THEN Raise(t, 409, <<"Location not releasable">>)
         ELSE /\ locations' = SetStatus(locations, id, "FREE")
              /\ resp' = [resp EXCEPT ![t] =
                            [code |-> 200, ok |-> TRUE, location |-> Get(locations', id)]]
              /\ pc' = [pc EXCEPT ![t] = "done"]
              /\ UNCHANGED <<reservations, req, idx, results, pre, last>>

free(t) ==
    /\ pc[t] = "free"
    /\ LET id == req[t].location_id IN
         IF ~Has(locations, id)
         THEN Raise(t, 404, <<"Location not found">>)
         ELSE /\ locations' = SetStatus(locations, id, "FREE")
              /\ resp' = [resp EXCEPT ![t] =
                            [code |-> 200, ok |-> TRUE, location |-> Get(locations', id)]]
              /\ pc' = [pc EXCEPT ![t] = "done"]
              /\ UNCHANGED <<reservations, req, idx, results, pre, last>>

---------------------------------------------------------------------------
(* move *)

\* a source guard that lets a location under maintenance be emptied
MoveFromAllowedMaint(s) == s \in {"OCCUPIED", "MAINT"}

\* the status move requires of the source
MoveFromAllowed(s) == s = "OCCUPIED"

\* a destination guard that only accepts free locations
MoveToAllowedFreeOnly(s) == s = "FREE"

\* a destination test that also accepts an occupied destination
MoveToAllowedOccupied(s) == s \in {"FREE", "RESERVED", "OCCUPIED"}

\* the statuses move accepts for the destination
MoveToAllowed(s) == s \in {"FREE", "RESERVED"}

move_check_from(t) ==
    /\ pc[t] = "move_check_from"
    /\ LET from == req[t].from_location_id
           to == req[t].to_location_id IN
         IF ~Has(locations, from) \/ ~Has(locations, to)
         THEN Raise(t, 404, <<"Location not found">>)
         ELSE IF ~MoveFromAllowed(StatusOf(locations, from))
         THEN Raise(t, 409, <<"From location not OCCUPIED">>)
         ELSE /\ pc' = [pc EXCEPT ![t] = "move_check_to"]
              /\ UNCHANGED <<locations, reservations, req, idx, results, resp, pre, last>>

move_check_to(t) ==
    /\ pc[t] = "move_check_to"
    /\ IF ~MoveToAllowed(StatusOf(locations, req[t].to_location_id))
       THEN Raise(t, 409, <<"To location not FREE/RESERVED">>)
       ELSE /\ pc' = [pc EXCEPT ![t] = "move_set_from"]
            /\ UNCHANGED <<locations, reservations, req, idx, results, resp, pre, last>>

move_set_from(t) ==
    /\ pc[t] = "move_set_from"
    /\ locations' = SetStatus(locations, req[t].from_location_id, "FREE")
    /\ pc' = [pc EXCEPT ![t] = "move_set_to"]
    /\ UNCHANGED <<reservations, req, idx, results, resp, pre, last>>

move_set_to(t) ==
    /\ pc[t] = "move_set_to"
    /\ locations' = SetStatus(locations, req[t].to_location_id, "OCCUPIED")
    /\ resp' = [resp EXCEPT ![t] =
                  [code |-> 200, ok |-> TRUE,
                   from |-> Get(locations', req[t].from_location_id),
                   to |-> Get(locations', req[t].to_location_id)]]
    /\ pc' = [pc EXCEPT ![t] = "done"]
    /\ UNCHANGED <<reservations, req, idx, results, pre, last>>

---------------------------------------------------------------------------
(* reserve *)

\* a guard that takes an occupied location for an available one
ReserveAllowedLax(s) == s \in {"FREE", "OCCUPIED"}

\* the status reserve requires of every location it names
ReserveAllowed(s) == s = "FREE"

\* reservations[key] = value
Store(dict, key, value) ==
    [k \in DOMAIN dict \cup {key} |-> IF k = key THEN value ELSE dict[k]]

\* a single loop that reserves each location as soon as it has passed the check
reserve_check_eager(t) ==
    /\ pc[t] = "reserve_check"
    /\ LET ids == req[t].res.location_ids IN
         IF idx[t] > Len(ids)
         THEN /\ pc' = [pc EXCEPT ![t] = "reserve_apply"]
              /\ idx' = [idx EXCEPT ![t] = 1]
              /\ UNCHANGED <<locations, reservations, req, results, resp, pre, last>>
         ELSE LET lid == ids[idx[t]] IN
              IF ~Has(locations, lid)
              THEN Raise(t, 404, <<"Location ", lid, " not found">>)
              ELSE IF ~ReserveAllowed(StatusOf(locations, lid))
              THEN Raise(t, 409, <<"Location ", lid, " not FREE">>)
              ELSE /\ idx' = [idx EXCEPT ![t] = idx[t] + 1]
                   /\ locations' = SetStatus(locations, lid, "RESERVED")
                   /\ UNCHANGED <<reservations, pc, req, results, resp, pre, last>>

\* the first loop: one iteration checks the id at idx
reserve_check(t) ==
    /\ pc[t] = "reserve_check"
    /\ LET ids == req[t].res.location_ids IN
         IF idx[t] > Len(ids)
         THEN /\ pc' = [pc EXCEPT ![t] = "reserve_apply"]
              /\ idx' = [idx EXCEPT ![t] = 1]
              /\ UNCHANGED <<locations, reservations, req, results, resp, pre, last>>
         ELSE LET lid == ids[idx[t]] IN
              IF ~Has(locations, lid)
              THEN Raise(t, 404, <<"Location ", lid, " not found">>)
              ELSE IF ~ReserveAllowed(StatusOf(locations, lid))
              THEN Raise(t, 409, <<"Location ", lid, " not FREE">>)
              ELSE /\ idx' = [idx EXCEPT ![t] = idx[t] + 1]
                   /\ UNCHANGED <<locations, reservations, pc, req, results, resp, pre, last>>

\* a second loop that stops one element early
reserve_apply_short(t) ==
    /\ pc[t] = "reserve_apply"
    /\ LET ids == req[t].res.location_ids IN
         IF idx[t] >= Len(ids)
         THEN /\ pc' = [pc EXCEPT ![t] = "reserve_store"]
              /\ UNCHANGED <<locations, idx>>
         ELSE /\ locations' = SetStatus(locations, ids[idx[t]], "RESERVED")
              /\ idx' = [idx EXCEPT ![t] = idx[t] + 1]
              /\ UNCHANGED pc
    /\ UNCHANGED <<reservations, req, results, resp, pre, last>>

\* the second loop: one iteration sets the location at idx to RESERVED
reserve_apply(t) ==
    /\ pc[t] = "reserve_apply"
    /\ LET ids == req[t].res.location_ids IN
         IF idx[t] > Len(ids)
         THEN /\ pc' = [pc EXCEPT ![t] = "reserve_store"]
              /\ UNCHANGED <<locations, idx>>
         ELSE /\ locations' = SetStatus(locations, ids[idx[t]], "RESERVED")
              /\ idx' = [idx EXCEPT ![t] = idx[t] + 1]
              /\ UNCHANGED pc
    /\ UNCHANGED <<reservations, req, results, resp, pre, last>>

\* reservations[res.id] = res.dict(), and the response built from it
\* a store that first releases the locations of the record it replaces
reserve_store_releasing(t) ==
    /\ pc[t] = "reserve_store"
    /\ LET res == req[t].res
           old == IF res.id \in DOMAIN reservations
                  THEN {reservations[res.id].location_ids[k] :
                            k \in 1..Len(reservations[res.id].location_ids)}
                  ELSE {}
           new == {res.location_ids[k] : k \in 1..Len(res.location_ids)} IN
         /\ locations' = [k \in 1..Len(locations) |->
                            IF locations[k].id \in old \ new
                            THEN [locations[k] EXCEPT !.status = "FREE"]
                            ELSE locations[k]]
         /\ reservations' = Store(reservations, res.id, res)
         /\ resp' = [resp EXCEPT ![t] =
                       [code |-> 200, ok |-> TRUE, reservation |-> reservations'[res.id]]]
    /\ pc' = [pc EXCEPT ![t] = "done"]
    /\ UNCHANGED <<req, idx, results, pre, last>>

reserve_store(t) ==
    /\ pc[t] = "reserve_store"
    /\ reservations' = Store(reservations, req[t].res.id, req[t].res)
    /\ resp' = [resp EXCEPT ![t] =
                  [code |-> 200, ok |-> TRUE, reservation |-> reservations'[req[t].res.id]]]
    /\ pc' = [pc EXCEPT ![t] = "done"]
    /\ UNCHANGED <<locations, req, idx, results, pre, last>>

---------------------------------------------------------------------------
(* get_locations: the query *)

\* the eight filter lines of the loop: TRUE when none of them skips loc
Matches(loc, q) ==
    /\ ~(TruthyStr(q.status) /\ loc.status # q.status[1])
    /\ ~(TruthyStr(q.area_type) /\ loc.area_type # q.area_type[1])
    /\ ~(TruthyStr(q.area_id) /\ loc.area_id # q.area_id[1])
    /\ ~(TruthyStr(q.group_id) /\ loc.group_id # q.group_id[1])
    /\ ~(TruthyInt(q.min_l) /\ loc.length_mm < q.min_l[1])
    /\ ~(TruthyInt(q.min_w) /\ loc.width_mm < q.min_w[1])
    /\ ~(TruthyInt(q.min_h) /\ loc.height_mm < q.min_h[1])
    /\ ~(TruthyInt(q.min_weight) /\ loc.max_weight_kg < q.min_weight[1])

\* `if len(results) >= limit: break`, evaluated after an append
LimitReached(n, limit) == n >= limit

\* one iteration of the loop over locations.values(); results holds the
\* records themselves, written here as their ids
query_scan(t) ==
    /\ pc[t] = "query_scan"
    /\ IF idx[t] > Len(locations)
       THEN /\ pc' = [pc EXCEPT ![t] = "query_return"]
            /\ UNCHANGED <<idx, results>>
       ELSE LET loc == locations[idx[t]] IN
            IF ~Matches(loc, req[t])
            THEN /\ idx' = [idx EXCEPT ![t] = idx[t] + 1]
                 /\ UNCHANGED <<pc, results>>
            ELSE /\ results' = [results EXCEPT ![t] = Append(results[t], loc.id)]
                 /\ IF LimitReached(Len(results'[t]), req[t].limit)
                    THEN /\ pc' = [pc EXCEPT ![t] = "query_return"]
                         /\ UNCHANGED idx
                    ELSE /\ idx' = [idx EXCEPT ![t] = idx[t] + 1]
                         /\ UNCHANGED pc
    /\ UNCHANGED <<locations, reservations, req, resp, pre, last>>

\* return {"count": len(results), "items": results}
query_return(t) ==
    /\ pc[t] = "query_return"
    /\ resp' = [resp EXCEPT ![t] =
                  [code |-> 200, count |-> Len(results[t]), items |-> <<>>]]
    /\ idx' = [idx EXCEPT ![t] = 1]
    /\ pc' = [pc EXCEPT ![t] = "query_encode"]
    /\ UNCHANGED <<locations, reservations, req, results, pre, last>>

\* the returned items are the live records of `locations`: each is read
\* when the response is written out, one after the other
query_encode(t) ==
    /\ pc[t] = "query_encode"
    /\ IF idx[t] > Len(results[t])
       THEN /\ pc' = [pc EXCEPT ![t] = "done"]
            /\ UNCHANGED <<idx, resp>>
       ELSE /\ resp' = [resp EXCEPT ![t].items =
                          Append(@, Get(locations, results[t][idx[t]]))]
            /\ idx' = [idx EXCEPT ![t] = idx[t] + 1]
            /\ UNCHANGED pc
    /\ UNCHANGED <<locations, reservations, req, results, pre, last>>

---------------------------------------------------------------------------
(* The specifications *)

\* one step of the handler thread t is in
Handle(t) ==
    \/ health(t)
    \/ query_scan(t) \/ query_return(t) \/ query_encode(t)
    \/ reserve_check(t) \/ reserve_apply(t) \/ reserve_store(t)
    \/ occupy_check(t) \/ occupy_set(t)
    \/ free(t)
    \/ move_check_from(t) \/ move_check_to(t) \/ move_set_from(t) \/ move_set_to(t)

Client == "t1"

\* requests served one at a time
Next == Begin(Client, Requests) \/ Handle(Client) \/ Return(Client)

Spec == Init /\ [][Next]_vars


\* the values a query may give each filter: absent, or one of a few values
\* the catalogue does or does not hold, "" and 0 among them
FilterValues ==
    [status |-> {None, Some("FREE"), Some("OCCUPIED")},
     area_type |-> {None, Some("FLEX")},
     area_id |-> {None, Some("RACK-01")},
     group_id |-> {None, Some(""), Some("FLEX-02-OVR-01")},
     min_l |-> {None, Some(0), Some(1200)},
     min_w |-> {None, Some(1000)},
     min_h |-> {None, Some(0)},
     min_weight |-> {None, Some(1000)}]

\* the parameters of get_locations with filters, the limit at least 1
FilterRequests ==
    {[op |-> "query", status |-> s, area_type |-> at, area_id |-> ai, min_l |-> l,
      min_w |-> w, min_h |-> h, min_weight |-> m, group_id |-> g, limit |-> n] :
        s \in FilterValues.status, at \in FilterValues.area_type,
        ai \in FilterValues.area_id, g \in FilterValues.group_id,
        l \in FilterValues.min_l, w \in FilterValues.min_w,
        h \in FilterValues.min_h, m \in FilterValues.min_weight,
        n \in (1..MaxLimit) \cup {DefaultLimit}}

\* queries with filters, served one at a time on every loaded catalogue
NextQuery ==
    \/ Begin(Client, FilterRequests)
    \/ query_scan(Client) \/ query_return(Client) \/ query_encode(Client)
    \/ Return(Client)

SpecQuery == Init /\ [][NextQuery]_vars

\* requests served by two worker threads at once, one request each
ConcRequests ==
    {r \in Requests :
        /\ r.op = "reserve" => Len(r.res.location_ids) \in 1..ConcMaxIds
        /\ r.op = "query" => r.limit = DefaultLimit
        /\ r.op \in {"occupy", "free"} => r.location_id # "LX"
        /\ r.op = "move" => r.from_location_id # "LX" /\ r.to_location_id # "LX"}

NextConc == \E t \in Threads : Begin(t, ConcRequests) \/ Handle(t)

SpecConc == Init /\ [][NextConc]_vars

---------------------------------------------------------------------------
(* Properties *)

Done(t, op) == pc[t] = "done" /\ req[t].op = op

\* every id of the list exists and is FREE in locs
AllFree(locs, ids) ==
    \A k \in 1..Len(ids) : Has(locs, ids[k]) /\ StatusOf(locs, ids[k]) = "FREE"

\* neither dictionary differs from what it was when t's request began
Untouched(t) ==
    locations = pre[t].locations /\ reservations = pre[t].reservations

\* C1: a reserve request naming, at any position, an id that is missing or
\* not FREE fails, and from its first step to its last both dictionaries
\* stay exactly as they were before the call.
ReserveAllOrNothing ==
    \A t \in Threads :
        (req[t].op = "reserve" /\ ~AllFree(pre[t].locations, req[t].res.location_ids)) =>
            /\ Untouched(t)
            /\ pc[t] = "done" => resp[t].code \in {404, 409}

\* a reserve has failed on its third id after two valid FREE ids
ReserveFailedLate ==
    /\ Done(Client, "reserve")
    /\ resp[Client].code \in {404, 409}
    /\ Len(req[Client].res.location_ids) = 3
    /\ AllFree(pre[Client].locations, SubSeq(req[Client].res.location_ids, 1, 2))

OccupyContract ==
    \A t \in Threads :
        Done(t, "occupy") =>
            LET id == req[t].location_id
                old == pre[t].locations IN
            IF ~Has(old, id)
            THEN resp[t].code = 404 /\ Untouched(t)
            ELSE IF StatusOf(old, id) \in {"FREE", "RESERVED"}
            THEN resp[t].code = 200 /\ StatusOf(locations, id) = "OCCUPIED"
            ELSE resp[t].code = 409 /\ Untouched(t)

\* an occupy of a BLOCKED location has been refused
OccupyRefusedBlocked ==
    /\ Done(Client, "occupy")
    /\ Has(pre[Client].locations, req[Client].location_id)
    /\ StatusOf(pre[Client].locations, req[Client].location_id) = "BLOCKED"
    /\ resp[Client].code = 409

\* C4: free of a catalogue location succeeds whatever its status was and
\* leaves it FREE; a free that directly follows a successful free of the same
\* location succeeds again and changes nothing.
FreeContract ==
    \A t \in Threads :
        (Done(t, "free") /\ Has(pre[t].locations, req[t].location_id)) =>
            /\ resp[t].code = 200
            /\ StatusOf(locations, req[t].location_id) = "FREE"
            /\ pre[t].repeats => Untouched(t)

\* the same location has been freed twice in a row
FreedTwice ==
    /\ Done(Client, "free")
    /\ resp[Client].code = 200
    /\ pre[Client].repeats

\* C5: move between two catalogue locations succeeds exactly when the source
\* was OCCUPIED and the destination FREE or RESERVED; then the source is FREE
\* and the destination OCCUPIED; a failing move (404 or 409) changes nothing,
\* and a move that repeats the successful move just before it fails with 409.
MoveContract ==
    \A t \in Threads :
        Done(t, "move") =>
            LET from == req[t].from_location_id
                to == req[t].to_location_id
                old == pre[t].locations IN
            IF ~Has(old, from) \/ ~Has(old, to)
            THEN resp[t].code = 404 /\ Untouched(t)
            ELSE /\ resp[t].code = 200 <=>
                      /\ StatusOf(old, from) = "OCCUPIED"
                      /\ StatusOf(old, to) \in {"FREE", "RESERVED"}
                 /\ resp[t].code = 200 =>
                      /\ StatusOf(locations, from) = "FREE"
                      /\ StatusOf(locations, to) = "OCCUPIED"
                 /\ resp[t].code # 200 => resp[t].code = 409 /\ Untouched(t)
                 /\ pre[t].repeats => resp[t].code = 409 /\ Untouched(t)

\* a successful move has been repeated and refused
MoveRepeated ==
    /\ Done(Client, "move")
    /\ pre[Client].repeats
    /\ resp[Client].code = 409

\* C6: a query without filters returns at most limit items and a count that
\* equals the number of items and does not exceed limit, for every integer
\* limit, 0 and the negative ones included.
QueryWithinLimit ==
    \A t \in Threads :
        (Done(t, "query") /\ req[t] = NoFilters(req[t].limit)) =>
            /\ Len(resp[t].items) <= req[t].limit
            /\ resp[t].count = Len(resp[t].items)
            /\ resp[t].count <= req[t].limit

\* C7: two reserve requests served at the same time whose id lists share a
\* location never both succeed.
ReserveExclusive ==
    \A t, u \in Threads :
        (t # u /\ Done(t, "reserve") /\ Done(u, "reserve")
              /\ resp[t].code = 200 /\ resp[u].code = 200) =>
            \A i \in 1..Len(req[t].res.location_ids), j \in 1..Len(req[u].res.location_ids) :
                req[t].res.location_ids[i] # req[u].res.location_ids[j]

\* the status the answered query q reports for location id, "" when the
\* location is not among its items
Reported(q, id) ==
    IF \E k \in 1..Len(resp[q].items) : resp[q].items[k].id = id
    THEN (CHOOSE r \in {resp[q].items[k] : k \in 1..Len(resp[q].items)} : r.id = id).status
    ELSE ""

\* move(A, B) of thread m passed both checks: it succeeds or has succeeded
MovePassed(m) ==
    /\ req[m].op = "move"
    /\ \/ pc[m] \in {"move_set_from", "move_set_to"}
       \/ pc[m] = "done" /\ resp[m].code = 200

\* C8: a query served while move(A, B) succeeds never reports the state in
\* between the two writes, A already FREE and B not yet OCCUPIED.
MoveAtomicForQuery ==
    \A q, m \in Threads :
        (Done(q, "query") /\ MovePassed(m)) =>
            ~ /\ Reported(q, req[m].from_location_id) = "FREE"
              /\ Reported(q, req[m].to_location_id) \in {"FREE", "RESERVED"}

\* the location a write fills (sets to OCCUPIED), "" when it fills none
Fills(r) ==
    CASE r.op = "occupy" -> r.location_id
      [] r.op = "move" -> r.to_location_id
      [] OTHER -> ""

\* C9: of two writes served at the same time that fill the same location,
\* or that move out of the same source, at most one succeeds.
WritesSerialized ==
    \A t, u \in Threads :
        (t # u /\ pc[t] = "done" /\ pc[u] = "done"
              /\ resp[t].code = 200 /\ resp[u].code = 200) =>
            /\ Fills(req[t]) # "" => Fills(req[t]) # Fills(req[u])
            /\ (req[t].op = "move" /\ req[u].op = "move") =>
                  req[t].from_location_id # req[u].from_location_id

\* C10: from the loaded catalogue on, through every step of every reserve,
\* occupy, free and move, each location has a status and it is one of the
\* five status values.
StatusAlwaysValid ==
    \A k \in 1..Len(locations) :
        /\ "status" \in DOMAIN locations[k]
        /\ locations[k].status \in StatusValues

\* a move has succeeded, out of a location that was OCCUPIED and into one
\* that was RESERVED, with a BLOCKED location beside them
MovedIntoReserved ==
    /\ Done(Client, "move")
    /\ resp[Client].code = 200
    /\ StatusOf(pre[Client].locations, req[Client].to_location_id) = "RESERVED"
    /\ \E k \in 1..Len(locations) : locations[k].status = "BLOCKED"

\* the ids of the list that are not in locs
Missing(locs, ids) == {ids[k] : k \in 1..Len(ids)} \ {locs[k].id : k \in 1..Len(locs)}

\* C11: reserve checks that every id exists before it checks that any is
\* FREE: a request naming a missing id fails with 404 naming a missing id,
\* also when a location that is not FREE comes before it in the list.
ReserveChecksExistenceFirst ==
    \A t \in Threads :
        (Done(t, "reserve") /\ Missing(pre[t].locations, req[t].res.location_ids) # {}) =>
            /\ resp[t].code = 404
            /\ \E k \in 1..Len(resp[t].detail) :
                  resp[t].detail[k] \in Missing(pre[t].locations, req[t].res.location_ids)

---------------------------------------------------------------------------
(* The state machine of a location's status *)

\* the handler step thread t is about to take writes a status
Writing(t, label) == pc[t] = label

\* C12: every change of a location's status follows the state machine: to
\* RESERVED only from FREE and by reserve; to OCCUPIED only from FREE or
\* RESERVED and by occupy or as the destination of move; to FREE only by
\* free, or from OCCUPIED as the source of move.
StatusStep ==
    \A k \in 1..Len(locations) :
        LET old == locations[k].status
            new == locations'[k].status
            id == locations[k].id IN
        old # new =>
            CASE new = "RESERVED" ->
                    /\ old = "FREE"
                    /\ Writing(Client, "reserve_apply")
              [] new = "OCCUPIED" ->
                    /\ old \in {"FREE", "RESERVED"}
                    /\ \/ Writing(Client, "occupy_set") /\ req[Client].location_id = id
                       \/ Writing(Client, "move_set_to") /\ req[Client].to_location_id = id
              [] new = "FREE" ->
                    \/ Writing(Client, "free") /\ req[Client].location_id = id
                    \/ /\ Writing(Client, "move_set_from")
                       /\ req[Client].from_location_id = id
                       /\ old = "OCCUPIED"
              [] OTHER -> FALSE

StatusStateMachine == [][StatusStep]_vars

\* a move has taken its destination from RESERVED to OCCUPIED
MoveFilledReserved ==
    /\ Done(Client, "move")
    /\ resp[Client].code = 200
    /\ StatusOf(pre[Client].locations, req[Client].to_location_id) = "RESERVED"
    /\ StatusOf(locations, req[Client].to_location_id) = "OCCUPIED"
    /\ StatusOf(locations, req[Client].from_location_id) = "FREE"

Unavailable == {"BLOCKED", "MAINT"}

\* the ids of the locations of locs whose status is s
WithStatus(locs, s) == {locs[k].id : k \in {j \in 1..Len(locs) : locs[j].status = s}}

\* the catalogue ids a write request names
Named(r) ==
    CASE r.op = "reserve" -> {r.res.location_ids[k] : k \in 1..Len(r.res.location_ids)}
      [] r.op \in {"occupy", "free"} -> {r.location_id}
      [] r.op = "move" -> {r.from_location_id, r.to_location_id}
      [] OTHER -> {}

\* no step adds a location to the BLOCKED or to the MAINT ones, and a
\* BLOCKED or MAINT location changes status only in free
UnavailableStep ==
    /\ WithStatus(locations', "BLOCKED") \subseteq WithStatus(locations, "BLOCKED")
    /\ WithStatus(locations', "MAINT") \subseteq WithStatus(locations, "MAINT")
    /\ \A k \in 1..Len(locations) :
          (locations[k].status \in Unavailable /\ locations'[k].status # locations[k].status) =>
              /\ pc[Client] = "free"
              /\ req[Client].location_id = locations[k].id
              /\ locations'[k].status = "FREE"

\* a reserve, occupy or move whose ids all exist and that names a BLOCKED or
\* MAINT location is answered 409
UnavailableRefused ==
    \A t \in Threads :
        (/\ pc[t] = "done"
         /\ req[t].op \in {"reserve", "occupy", "move"}
         /\ Named(req[t]) \subseteq {pre[t].locations[k].id : k \in 1..Len(pre[t].locations)}
         /\ \E id \in Named(req[t]) : StatusOf(pre[t].locations, id) \in Unavailable) =>
            resp[t].code = 409 /\ Untouched(t)

\* C13: no operation puts a location into BLOCKED or MAINT, so neither set
\* ever gains a member over the loaded catalogue; reserve, occupy and move
\* (as source or as destination) refuse a BLOCKED or MAINT location with
\* 409, and only free changes its status.
UnavailableOnlyFromLoad == [][UnavailableStep]_vars /\ []UnavailableRefused

\* a move into a MAINT destination out of an OCCUPIED source has been refused
MoveIntoMaintRefused ==
    /\ Done(Client, "move")
    /\ Has(pre[Client].locations, req[Client].from_location_id)
    /\ Has(pre[Client].locations, req[Client].to_location_id)
    /\ StatusOf(pre[Client].locations, req[Client].from_location_id) = "OCCUPIED"
    /\ StatusOf(pre[Client].locations, req[Client].to_location_id) = "MAINT"
    /\ resp[Client].code = 409

---------------------------------------------------------------------------
(* What the handlers leave alone *)

\* a location record without its status
Fixed(loc) == [f \in DOMAIN loc \ {"status"} |-> loc[f]]

\* the catalogue without the statuses: ids in their order and all attributes
Catalogue(locs) == [k \in 1..Len(locs) |-> Fixed(locs[k])]

\* the catalogue as load_locations built it from the rows
Loaded == Catalogue(load_locations(SourceRows([k \in 1..3 |-> "FREE"])))

\* C14: after load no request, successful or failing, adds or removes a
\* location or changes an attribute other than status, and health reports
\* the size of the loaded catalogue.
CatalogueFixed ==
    /\ Catalogue(locations) = Loaded
    /\ \A t \in Threads : Done(t, "health") => resp[t].locations = Len(Loaded)

\* a move has written both statuses, out of the rack position and into a
\* slot of the group
MovedIntoGroupSlot ==
    /\ Done(Client, "move")
    /\ resp[Client].code = 200
    /\ Get(locations, req[Client].from_location_id).area_type = "RACKED"
    /\ Get(locations, req[Client].to_location_id).group_id = "FLEX-02-OVR-01"

\* C15: every Reservation in the ledger has a non-empty location_ids; a
\* reserve request with an empty list creates none.
ReservationsNonEmpty ==
    \A r \in DOMAIN reservations : Len(reservations[r].location_ids) > 0

---------------------------------------------------------------------------
(* The query's filters *)

\* loc satisfies every filter the query supplies: the text filters by
\* equality, the minimum filters by >=
Satisfies(loc, q) ==
    /\ Len(q.status) = 1 => loc.status = q.status[1]
    /\ Len(q.area_type) = 1 => loc.area_type = q.area_type[1]
    /\ Len(q.area_id) = 1 => loc.area_id = q.area_id[1]
    /\ Len(q.group_id) = 1 => loc.group_id = q.group_id[1]
    /\ Len(q.min_l) = 1 => loc.length_mm >= q.min_l[1]
    /\ Len(q.min_w) = 1 => loc.width_mm >= q.min_w[1]
    /\ Len(q.min_h) = 1 => loc.height_mm >= q.min_h[1]
    /\ Len(q.min_weight) = 1 => loc.max_weight_kg >= q.min_weight[1]

\* the first n elements of s, all of s when it is shorter
FirstN(s, n) == SubSeq(s, 1, IF n < Len(s) THEN n ELSE Len(s))

\* the locations of locs that satisfy q, in catalogue order
Satisfying(locs, q) == LET Test(loc) == Satisfies(loc, q) IN SelectSeq(locs, Test)

\* C16: for every combination of supplied filters, the group_id "" and the
\* minimum 0 included, and every limit >= 1, a query returns exactly the first
\* min(limit, matches) locations, in load order, among those that satisfy all
\* supplied filters.
QueryReturnsMatches ==
    \A t \in Threads :
        (Done(t, "query") /\ req[t].limit >= 1) =>
            /\ resp[t].items = FirstN(Satisfying(pre[t].locations, req[t]), req[t].limit)
            /\ resp[t].count = Len(resp[t].items)

---------------------------------------------------------------------------
(* The reservation ledger *)

\* a step that changes the ledger is the store of a reserve that answers 200,
\* and it removes no reservation id
LedgerStep ==
    reservations' # reservations =>
        /\ \E t \in Threads :
              /\ pc[t] = "reserve_store" /\ pc'[t] = "done" /\ resp'[t].code = 200
              /\ reservations' = Store(reservations, req[t].res.id, req[t].res)
        /\ DOMAIN reservations \subseteq DOMAIN reservations'

\* occupy, release and move, answered 200 or not, leave the ledger as it was
LedgerKept ==
    \A t \in Threads :
        (pc[t] = "done" /\ req[t].op \in {"occupy", "free", "move"}) =>
            reservations = pre[t].reservations

\* a reserve under a stored id on FREE locations answers 200 and replaces the
\* record; the locations of the replaced record it does not name keep their status
ReserveReplaces ==
    \A t \in Threads :
        (/\ Done(t, "reserve")
         /\ req[t].res.id \in DOMAIN pre[t].reservations
         /\ AllFree(pre[t].locations, req[t].res.location_ids)) =>
            LET old == pre[t].reservations[req[t].res.id].location_ids
                new == {req[t].res.location_ids[k] : k \in 1..Len(req[t].res.location_ids)} IN
            /\ resp[t].code = 200
            /\ reservations[req[t].res.id] = req[t].res
            /\ \A k \in 1..Len(old) :
                  old[k] \notin new =>
                      StatusOf(locations, old[k]) = StatusOf(pre[t].locations, old[k])

\* C17: the ledger changes only in a successful reserve: occupy, release and
\* move never change it, even when they change the status of a location a
\* stored Reservation names; a reserve under a stored id on FREE locations
\* succeeds and replaces the record without touching the locations of the
\* replaced one; the set of stored reservation ids never shrinks.
LedgerOnlyByReserve == [][LedgerStep]_vars /\ []LedgerKept /\ []ReserveReplaces

\* a reserve has replaced a stored record one of whose locations was occupied
\* in the meantime and is still OCCUPIED
ReservationReplaced ==
    /\ Done(Client, "reserve")
    /\ resp[Client].code = 200
    /\ req[Client].res.id \in DOMAIN pre[Client].reservations
    /\ LET old == pre[Client].reservations[req[Client].res.id].location_ids IN
         \E k \in 1..Len(old) :
             /\ \A j \in 1..Len(req[Client].res.location_ids) :
                   req[Client].res.location_ids[j] # old[k]
             /\ StatusOf(locations, old[k]) = "OCCUPIED"

---------------------------------------------------------------------------
(* What the errors say *)

\* the text x is one of the pieces the error detail d is made of
InDetail(d, x) == \E k \in 1..Len(d) : d[k] = x

\* the location ids of t's request, as a list
NamedList(t) ==
    CASE req[t].op = "reserve" -> req[t].res.location_ids
      [] req[t].op \in {"occupy", "free"} -> <<req[t].location_id>>
      [] req[t].op = "move" -> <<req[t].from_location_id, req[t].to_location_id>>
      [] OTHER -> <<>>

\* C18: every 404 of reserve, occupy and release carries the id of the
\* missing location, and every 409 of reserve, occupy and move carries the id
\* of the offending location, its current status and the operation attempted.
ErrorsCarryContext ==
    \A t \in Threads :
        pc[t] = "done" =>
            /\ (resp[t].code = 404 /\ req[t].op \in {"reserve", "occupy", "free"}) =>
                  \E id \in Missing(pre[t].locations, NamedList(t)) :
                      InDetail(resp[t].detail, id)
            /\ (resp[t].code = 409 /\ req[t].op \in {"reserve", "occupy", "move"}) =>
                  \E k \in 1..Len(NamedList(t)) :
                      /\ Has(pre[t].locations, NamedList(t)[k])
                      /\ InDetail(resp[t].detail, NamedList(t)[k])
                      /\ InDetail(resp[t].detail, StatusOf(pre[t].locations, NamedList(t)[k]))
                      /\ InDetail(resp[t].detail, req[t].op)

---------------------------------------------------------------------------
(* Moving a location onto itself *)

\* C19: a move whose source and destination are the same existing location
\* fails with 409 whatever the location's status, and changes neither that
\* status nor anything else.
MoveOntoItselfRefused ==
    \A t \in Threads :
        (/\ req[t].op = "move"
         /\ req[t].from_location_id = req[t].to_location_id
         /\ Has(pre[t].locations, req[t].from_location_id)) =>
            /\ Untouched(t)
            /\ pc[t] = "done" => resp[t].code = 409

\* a move of an OCCUPIED location onto itself has been refused at the
\* destination test
MovedOccupiedOntoItself ==
    /\ Done(Client, "move")
    /\ req[Client].from_location_id = req[Client].to_location_id
    /\ Has(pre[Client].locations, req[Client].from_location_id)
    /\ StatusOf(pre[Client].locations, req[Client].from_location_id) = "OCCUPIED"
    /\ resp[Client].code = 409
    /\ resp[Client].detail = <<"To location not FREE/RESERVED">>

---------------------------------------------------------------------------
(* The locations a request does not name *)

\* C20: a request changes the status of no location it does not name: occupy
\* and release only their location, move only its two, reserve only its ids,
\* query and health nothing; no change spreads to the other slots of a
\* location's group.
WritesOnlyNamed ==
    \A t \in Threads :
        req[t].op # "none" =>
            /\ Len(locations) = Len(pre[t].locations)
            /\ \A k \in 1..Len(locations) :
                  locations[k].id \notin Named(req[t]) => locations[k] = pre[t].locations[k]
            /\ req[t].op \in {"query", "health"} => Untouched(t)

\* an occupy has filled one slot of a group and another slot of the group is
\* not OCCUPIED
OccupiedOneSlotOfGroup ==
    /\ Done(Client, "occupy")
    /\ resp[Client].code = 200
    /\ \E k \in 1..Len(locations) :
          /\ locations[k].id # req[Client].location_id
          /\ locations[k].group_id # ""
          /\ locations[k].group_id = Get(locations, req[Client].location_id).group_id
          /\ locations[k].status # "OCCUPIED"

=============================================================================
